---- MODULE Spec2Model ----
(***************************************************************************)
(* Remus (Rufus for macOS): the raw image writer macos_write_iso_to_device *)
(* of src/src/macos/macos_device.c, run as the backend process that the    *)
(* GUI view model starts, together with the GUI's cancelOperation.         *)
(*                                                                         *)
(* Offsets and lengths are byte counts with the program's real constants   *)
(* (512-byte sectors, 8 MiB buffers).  The source image is the generic     *)
(* image whose byte at offset x is "x": the device content is a set of     *)
(* extents <<lo, hi, shift>> saying that device bytes [lo, hi) hold the    *)
(* image bytes [lo - shift, hi - shift), or bytes that are not image data  *)
(* (shift = Stale: uninitialised or left-over buffer bytes).  Device bytes *)
(* outside every extent still hold what the device held before the run.    *)
(*                                                                         *)
(* read_size is uint32_t and wb uint64_t; a length is at most buf_size     *)
(* (2^23) and an offset at most the rounded image size, so no value of the *)
(* model reaches 2^31 and none of the program's wraps around.              *)
(***************************************************************************)
EXTENDS Integers, Sequences, FiniteSets, TLC

\* ----------------------------------------------------------------- constants
NUM_BUFFERS == 2
DD_BUFFER_SIZE == 8388608
WRITE_RETRIES == 5
WRITE_TIMEOUT == 5000
SECTOR_SIZE == 512
\* usleep(200000) of the retry loop, in ms
SETTLE_PAUSE == 200

\* ------------------------------------------------------------------- bounds
\* Images of up to MaxChunks buffers; at most MaxShortReads reads of the
\* source return fewer bytes than requested.
MaxChunks == 3
MaxShortReads == 1

\* Tags that are no offset.
Stale == 0 - 1

NoOffset == 0 - 1

VARIABLES
    pc,                 \* position of the backend in macos_write_iso_to_device
    ret,                \* bool ret
    outcome,            \* the exit path taken (the message printed on it)
    target_size,        \* uint64_t target_size
    wb,                 \* uint64_t wb: the write cursor
    read_size,          \* uint32_t read_size[NUM_BUFFERS]
    read_bufnum,        \* int read_bufnum
    proc_bufnum,        \* int proc_bufnum
    i,                  \* int i: the attempt number of the retry loop
    g_rufus_progress,   \* the static progress record
    events,             \* the progress lines printed, in order: <<written, total>>
    src_pos,            \* read position of source_image
    buf,                \* what each buffer holds: image bytes [src, src + n)
    dev,                \* device content written so far (extents)
    pos,                \* file position of physical_drive
    open,               \* which of source_image, physical_drive, buffer are held
    nShort,             \* number of short reads so far
    chunks,             \* history: <<offset, length, bytes read>> of every chunk handed to the retry loop
    lastAtt,            \* history: the latest fwrite on the device
    nAttempts,          \* history: fwrite calls made for the current chunk
    isOperationInProgress,  \* GUI view model
    statusMessage,          \* GUI view model
    cancelRequested,    \* history: the user has pressed Cancel
    cancelIterOff,      \* history: wb of the first iteration begun after Cancel
    src_len,            \* the number of bytes the source really holds
    steps,              \* history: the setup steps run, in order: <<step, succeeded>>
    ops,                \* history: sleeps, seeks and syncs since the latest fwrite: <<call, argument>>
    closes,             \* history: how often each resource has been released
    writeFailed,        \* history: some fwrite has written less than asked
    recovered,          \* history: some chunk was written in full after a failed attempt
    unmount_result,     \* int unmount_result: read by the log lines that follow, dead after them
    requested,          \* history: sum of the lengths asked of fread
    progress,           \* GUI view model: progress, in thousandths (1.0 is 1000)
    running,            \* the backend processes started by the view model and not yet
                        \* terminated, in the order of their start: the kind ("format",
                        \* "iso") and fullOutput, the lines received from it so far
    cli_pc,             \* position of the command line tool in main
    argv,               \* argv[1..] of the command line tool
    list_devices,       \* bool list_devices
    auto_yes,           \* bool auto_yes
    device_name,        \* char *device_name
    fs_type,            \* char *fs_type
    label,              \* char *label
    iso_file,           \* char *iso_file
    registry,           \* the IOMedia objects of the I/O registry
    iterator,           \* io_iterator_t iter: the media still to come
    drives,             \* drives[0 .. drive_count - 1]
    num_drives,         \* int num_drives
    drive,              \* macos_remus_drive *drive: <<>> is NULL, <<k>> is &drives[k - 1]
    iso_size,           \* long iso_size of write_iso_to_device: <<>> before it is set
    response,           \* the answer read from stdin at the prompt
    success,            \* bool success of main: <<>> before it is set
    calls,              \* history: the unmount, format and write requests made
    exit_status         \* the value returned by main

vars == <<pc, ret, outcome, target_size, wb, read_size, read_bufnum, proc_bufnum, i,
          g_rufus_progress, events, src_pos, buf, dev, pos, open, nShort, chunks,
          lastAtt, nAttempts, isOperationInProgress, statusMessage, cancelRequested,
          cancelIterOff, src_len, steps, ops, closes, writeFailed, recovered,
          unmount_result, requested, progress, running, cli_pc, argv,
          list_devices, auto_yes, device_name, fs_type, label, iso_file, registry,
          iterator, drives, num_drives, drive, iso_size, response, success, calls,
          exit_status>>

engineVars == <<ret, outcome, target_size, wb, read_size, read_bufnum, proc_bufnum, i,
                g_rufus_progress, events, src_pos, buf, dev, pos, open, nShort, chunks,
                lastAtt, nAttempts, src_len, steps, ops, closes, writeFailed, recovered,
                unmount_result, requested>>

guiVars == <<isOperationInProgress, statusMessage, cancelRequested, progress, running>>

\* The command line tool (main of remus_macos.c) and the device enumeration.
optVars == <<list_devices, auto_yes, device_name, fs_type, label, iso_file>>

enumVars == <<registry, iterator, drives, num_drives>>

frontVars == <<cli_pc, argv, optVars, enumVars, drive, iso_size, response, success, calls,
               exit_status>>

\* A char pointer that is NULL.
NULL == "(null)"

\* ------------------------------------------------------------------ helpers
MIN(a, b) == IF a < b THEN a ELSE b

MAX(a, b) == IF a > b THEN a ELSE b

\* buf_size = ((DD_BUFFER_SIZE + 511) / 512) * 512
buf_size == ((DD_BUFFER_SIZE + (SECTOR_SIZE - 1)) \div SECTOR_SIZE) * SECTOR_SIZE

\* RoundUp without the rounding: the length read is written as it is.
RoundUp_None(n) == n

\* RoundUp going to the next multiple of 512 from a multiple of 512 as well.
RoundUp_Next(n) == ((n \div SECTOR_SIZE) + 1) * SECTOR_SIZE

\* if (n % 512 != 0) n = ((n + 511) / 512) * 512
RoundUp(n) ==
    IF n % SECTOR_SIZE # 0
    THEN ((n + (SECTOR_SIZE - 1)) \div SECTOR_SIZE) * SECTOR_SIZE
    ELSE n

\* Image sizes the size query may report.
Deltas == {1, 511, 512, 513, buf_size \div 2, buf_size}

Sizes == {(k * buf_size) + d : k \in 0..(MaxChunks - 1), d \in Deltas}

\* What ftell may return for the source: its length, or -1 on an error (a
\* source that cannot be seeked).
FtellError == 0 - 1

FtellResults == Sizes \cup {0, FtellError}

\* Lengths of a source whose size query fails.
UnsizedLengths == {SECTOR_SIZE, buf_size + 1}

\* target_size = ftell(source_image): the long is converted to uint64_t, which
\* turns -1 into 2^64 - 1.  The model's integers end at 2^31 - 1, which
\* stands for it here: like 2^64 - 1 it lies above every offset of the model.
Uint64(v) == IF v < 0 THEN 2147483647 ELSE v

\* The bytes of a request of req bytes that the source still holds.
Available(req) == MIN(req, src_len - src_pos)

\* fread(buffer, 1, req, source_image): all the source has of the request, or
\* fewer bytes on a read error.
ReadResults(req) ==
    {Available(req)}
    \cup (IF nShort < MaxShortReads THEN {n \in {0, 100, 512} : n < Available(req)} ELSE {})

\* source_image, physical_drive and buffer
Resources == {"source_image", "physical_drive", "buffer"}

\* fwrite(buffer, 1, len, physical_drive): the number of bytes written.
WriteResults(len) == {0, len \div 2, len}

\* File position after a write of w of len bytes: advanced by w, or, after a
\* failed write, indeterminate.
PositionsAfter(p, w, len) == IF w = len THEN {p + w} ELSE {p + w, p + len}

\* ----------------------------------------------------------- device content
RECURSIVE Merge(_)
Merge(S) ==
    IF \E e \in S, f \in S : e[2] = f[1] /\ e[3] = f[3]
    THEN LET p == CHOOSE q \in S \X S : q[1][2] = q[2][1] /\ q[1][3] = q[2][3]
         IN  Merge((S \ {p[1], p[2]}) \cup {<<p[1][1], p[2][2], p[1][3]>>})
    ELSE S

\* The extents of S outside [lo, hi).
Clip(S, lo, hi) ==
    {<<e[1], MIN(e[2], lo), e[3]>> : e \in {x \in S : x[1] < lo}}
    \cup {<<MAX(e[1], hi), e[2], e[3]>> : e \in {x \in S : x[2] > hi}}

\* w bytes of buffer b (holding image bytes [b.src, b.src + b.n), then bytes
\* that are not image data) written at device offset p.
DevWrite(S, p, w, b) ==
    LET good == MIN(w, b.n)
        new  == {e \in {<<p, p + good, p - b.src>>, <<p + good, p + w, Stale>>} : e[1] < e[2]}
    IN  Merge(Clip(S, p, p + w) \cup new)

\* Device bytes [0, n) equal image bytes [0, n).
DevHoldsImage(S, n) == \E e \in S : e[1] = 0 /\ e[2] >= n /\ e[3] = 0

\* -------------------------------------------------------------------- state
\* main's locals as declared, and the static drives[] and num_drives.
Declared ==
    /\ list_devices = FALSE
    /\ auto_yes = FALSE
    /\ device_name = NULL
    /\ fs_type = "FAT32"
    /\ label = NULL
    /\ iso_file = NULL
    /\ iterator = <<>>
    /\ drives = <<>>
    /\ num_drives = 0
    /\ drive = <<>>
    /\ iso_size = <<>>
    /\ response = <<>>
    /\ success = <<>>
    /\ calls = <<>>
    /\ exit_status = <<>>

\* The writer and the view model before anything has run.
Idle ==
    /\ pc = "idle"
    /\ ret = FALSE
    /\ outcome = "none"
    /\ target_size = 0
    /\ wb = 0
    /\ read_size = [b \in 0..(NUM_BUFFERS - 1) |-> 0]
    /\ read_bufnum = 0
    /\ proc_bufnum = 1
    /\ i = 0
    /\ g_rufus_progress = [total_size |-> 0, written_bytes |-> 0, cancelled |-> FALSE]
    /\ events = <<>>
    /\ src_pos = 0
    /\ buf = [b \in 0..(NUM_BUFFERS - 1) |-> [src |-> 0, n |-> 0]]
    /\ dev = {}
    /\ pos = 0
    /\ open = {}
    /\ nShort = 0
    /\ chunks = <<>>
    /\ lastAtt = [off |-> NoOffset, len |-> 0, wb |-> NoOffset, written |-> 0,
                  durable |-> FALSE, slot |-> proc_bufnum]
    /\ nAttempts = 0
    /\ isOperationInProgress = FALSE
    /\ statusMessage = ""
    /\ cancelRequested = FALSE
    /\ cancelIterOff = NoOffset
    /\ src_len = 0
    /\ steps = <<>>
    /\ ops = <<>>
    /\ closes = [r \in Resources |-> 0]
    /\ writeFailed = FALSE
    /\ recovered = FALSE
    /\ unmount_result = <<>>
    /\ requested = 0
    /\ progress = 0
    /\ running = <<>>

Init ==
    /\ Idle
    /\ Declared
    /\ cli_pc = "off"
    /\ argv = <<>>
    /\ registry = <<>>

\* rufus_update_progress(written, total): g_rufus_progress.progress is
\* written / total * 100 (a double), kept here as the pair it is computed from.
rufus_update_progress(written, total) ==
    /\ g_rufus_progress' = [g_rufus_progress EXCEPT !.written_bytes = written,
                                                    !.total_size = total]
    /\ events' = Append(events, <<written, total>>)

\* goto out with the given exit path
GotoOut(why) ==
    /\ pc' = "out"
    /\ outcome' = why

\* Advance with "=" for "+=".
Advance_Assign(w, len) == len

\* for (...; ...; wb += read_size[proc_bufnum])
Advance(w, len) == w + len

\* AttemptsRemain with the comparison inverted: the first failure is final.
AttemptsRemain_Inverted(n) == n > WRITE_RETRIES

\* AttemptsRemain off by one: a sixth attempt is allowed.
AttemptsRemain_OneMore(n) == n <= WRITE_RETRIES

\* if (i < WRITE_RETRIES) { retry } else { give up }
AttemptsRemain(n) == n < WRITE_RETRIES

\* RetryOps without the 200 ms pause.
RetryOps_NoPause(w) == <<<<"usleep", WRITE_TIMEOUT>>, <<"fseek", w>>>>

\* The calls between a failed attempt and its retry: usleep(WRITE_TIMEOUT *
\* 1000), fseek(physical_drive, wb, SEEK_SET), usleep(200000).
RetryOps(w) == <<<<"usleep", WRITE_TIMEOUT>>, <<"fseek", w>>, <<"usleep", SETTLE_PAUSE>>>>

\* The calls that follow a full-length fwrite: fflush, fsync, break.
FlushOps == <<<<"fflush", 0>>, <<"fsync", 0>>>>

\* The calls after the loop: fflush, fsync, system("sync").
FinalOps == <<<<"fflush", 0>>, <<"fsync", 0>>, <<"sync", 0>>>>

\* NextBuf staying on the same slot.
NextBuf_Same(b) == b

\* read_bufnum = (read_bufnum + 1) % NUM_BUFFERS
NextBuf(b) == (b + 1) % NUM_BUFFERS

\* LoopProgress without the progress line.
LoopProgress_None == UNCHANGED <<g_rufus_progress, events>>

\* LoopProgress reporting the bytes of the current chunk, not the total.
LoopProgress_Chunk == rufus_update_progress(read_size[proc_bufnum], target_size)

\* 0. Update the progress: rufus_update_progress(wb, target_size)
LoopProgress == rufus_update_progress(wb, target_size)

\* ------------------------------------------------------------------ the GUI
\* performISOWrite: marks the operation as running and starts the backend
\* process (remus --device .. --iso .. --yes), which runs
\* macos_write_iso_to_device.  This is the start of the one backend process
\* whose run the writer's actions follow.
PerformISOWrite ==
    /\ pc = "idle"
    /\ ~isOperationInProgress
    /\ isOperationInProgress' = TRUE
    /\ progress' = 0
    /\ statusMessage' = "Preparing to write ISO..."
    /\ running' = Append(running, [kind |-> "iso", output |-> <<>>])
    /\ pc' = "start"
    /\ UNCHANGED <<engineVars, frontVars, cancelRequested, cancelIterOff>>

\* CancelOperation raising the cancellation flag of the backend as well.
CancelOperation_Signals ==
    /\ isOperationInProgress
    /\ isOperationInProgress' = FALSE
    /\ statusMessage' = "Operation cancelled"
    /\ cancelRequested' = TRUE
    /\ g_rufus_progress' = [g_rufus_progress EXCEPT !.cancelled = TRUE]
    /\ UNCHANGED <<progress, running>>
    /\ UNCHANGED <<pc, ret, outcome, target_size, wb, read_size, read_bufnum, proc_bufnum,
                   i, events, src_pos, buf, dev, pos, open, nShort, chunks, lastAtt,
                   nAttempts, src_len, steps, ops, closes, writeFailed, recovered,
                   unmount_result, requested, frontVars, cancelIterOff>>

\* cancelOperation: the Cancel button, shown while an operation is in
\* progress.  It changes the view model only.
CancelOperation ==
    /\ isOperationInProgress
    /\ isOperationInProgress' = FALSE
    /\ statusMessage' = "Operation cancelled"
    /\ cancelRequested' = TRUE
    /\ UNCHANGED <<progress, running>>
    /\ UNCHANGED <<pc, engineVars, frontVars, cancelIterOff>>

\* ----------------------------------------------- macos_write_iso_to_device
\* Entry: NULL check and reset of the progress record.
Enter ==
    /\ pc = "start"
    /\ \E params_ok \in BOOLEAN :
          IF params_ok
          THEN /\ g_rufus_progress' = [total_size |-> 0, written_bytes |-> 0,
                                       cancelled |-> FALSE]
               /\ pc' = "unmount"
               /\ UNCHANGED outcome
          ELSE /\ pc' = "returned"
               /\ outcome' = "null_params"
               /\ UNCHANGED g_rufus_progress
    /\ UNCHANGED <<ret, target_size, wb, read_size, read_bufnum, proc_bufnum, i, events,
                   src_pos, buf, dev, pos, open, nShort, chunks, lastAtt, nAttempts,
                   guiVars, frontVars, unmount_result, requested, cancelIterOff, src_len,
                   steps, ops, closes, writeFailed, recovered>>

\* What system(command) returns: 0, or the wait status of a failed command
\* (exit status 1).
SystemResults == {0, 256}

\* Unmount taking a failed unmount as fatal.
Unmount_Fatal ==
    /\ pc = "unmount"
    /\ \E r \in SystemResults :
          /\ unmount_result' = <<r>>
          /\ IF r = 0 THEN pc' = "open_source" /\ UNCHANGED outcome
                      ELSE GotoOut("unmount_failed")
    /\ steps' = Append(steps, <<"unmount", TRUE>>)
    /\ UNCHANGED <<ret, target_size, wb, read_size, read_bufnum, proc_bufnum, i,
                   g_rufus_progress, events, src_pos, buf, dev, pos, open, nShort, chunks,
                   lastAtt, nAttempts, guiVars, frontVars, requested, cancelIterOff,
                   src_len, ops, closes, writeFailed, recovered>>

\* diskutil unmountDisk force: the result is logged and otherwise ignored
\* ("continuing anyway"), so the step counts as made whatever it returns.
Unmount ==
    /\ pc = "unmount"
    /\ \E r \in SystemResults : unmount_result' = <<r>>
    /\ steps' = Append(steps, <<"unmount", TRUE>>)
    /\ pc' = "open_source"
    /\ UNCHANGED <<ret, outcome, target_size, wb, read_size, read_bufnum, proc_bufnum, i,
                   g_rufus_progress, events, src_pos, buf, dev, pos, open, nShort, chunks,
                   lastAtt, nAttempts, guiVars, frontVars, requested, cancelIterOff,
                   src_len, ops, closes, writeFailed, recovered>>

\* source_image = fopen(iso_path, "rb").  Nothing reads unmount_result from
\* here on: the model forgets it.
OpenSource ==
    /\ pc = "open_source"
    /\ unmount_result' = <<>>
    /\ \E ok \in BOOLEAN :
          /\ steps' = Append(steps, <<"open_source", ok>>)
          /\ IF ok
             THEN /\ open' = open \cup {"source_image"}
                  /\ src_pos' = 0
                  /\ pc' = "size"
                  /\ UNCHANGED outcome
             ELSE /\ GotoOut("source_open")
                  /\ UNCHANGED <<open, src_pos>>
    /\ UNCHANGED <<ret, target_size, wb, read_size, read_bufnum, proc_bufnum, i,
                   g_rufus_progress, events, buf, dev, pos, nShort, chunks, lastAtt,
                   nAttempts, guiVars, frontVars, requested, cancelIterOff, src_len, ops,
                   closes, writeFailed, recovered>>

\* fseek/ftell/fseek, then if (target_size <= 0) goto out
ReadSize ==
    /\ pc = "size"
    /\ \E r \in FtellResults :
          /\ src_len' \in (IF r = FtellError THEN UnsizedLengths ELSE {r})
          /\ steps' = Append(steps, <<"size", r > 0>>)
          /\ target_size' = Uint64(r)
          /\ IF Uint64(r) <= 0
             THEN GotoOut("invalid_size")
             ELSE pc' = "open_target" /\ UNCHANGED outcome
    /\ UNCHANGED <<ret, wb, read_size, read_bufnum, proc_bufnum, i, g_rufus_progress,
                   events, src_pos, buf, dev, pos, open, nShort, chunks, lastAtt,
                   nAttempts, guiVars, frontVars, unmount_result, requested, cancelIterOff,
                   ops, closes, writeFailed, recovered>>

\* physical_drive = fopen(raw_device_path, "r+b")
OpenTarget ==
    /\ pc = "open_target"
    /\ \E ok \in BOOLEAN :
          /\ steps' = Append(steps, <<"open_target", ok>>)
          /\ IF ok
             THEN /\ open' = open \cup {"physical_drive"}
                  /\ pos' = 0
                  /\ pc' = "alloc"
                  /\ UNCHANGED outcome
             ELSE /\ GotoOut("target_open")
                  /\ UNCHANGED <<open, pos>>
    /\ UNCHANGED <<ret, target_size, wb, read_size, read_bufnum, proc_bufnum, i,
                   g_rufus_progress, events, src_pos, buf, dev, nShort, chunks, lastAtt,
                   nAttempts, guiVars, frontVars, unmount_result, requested, cancelIterOff,
                   src_len, ops, closes, writeFailed, recovered>>

\* posix_memalign(&buffer, 512, buf_size * NUM_BUFFERS)
AllocBuffers ==
    /\ pc = "alloc"
    /\ \E ok \in BOOLEAN :
          /\ steps' = Append(steps, <<"alloc", ok>>)
          /\ IF ok
             THEN /\ open' = open \cup {"buffer"}
                  /\ pc' = "initial_read"
                  /\ UNCHANGED outcome
             ELSE /\ GotoOut("alloc")
                  /\ UNCHANGED open
    /\ UNCHANGED <<ret, target_size, wb, read_size, read_bufnum, proc_bufnum, i,
                   g_rufus_progress, events, src_pos, buf, dev, pos, nShort, chunks,
                   lastAtt, nAttempts, guiVars, frontVars, unmount_result, requested,
                   cancelIterOff, src_len, ops, closes, writeFailed, recovered>>

\* The initial read into buffer 0, read_size[proc_bufnum] = 1, the 0%
\* progress line, and wb = 0 of the for loop.
InitialRead ==
    /\ pc = "initial_read"
    /\ LET req == MIN(buf_size, target_size) IN
       \E n \in ReadResults(req) :
          /\ read_size' = [read_size EXCEPT ![read_bufnum] = n, ![proc_bufnum] = 1]
          /\ buf' = [buf EXCEPT ![read_bufnum] = [src |-> src_pos, n |-> n]]
          /\ src_pos' = src_pos + n
          /\ nShort' = IF n < Available(req) THEN nShort + 1 ELSE nShort
          /\ requested' = requested + req
    /\ rufus_update_progress(0, target_size)
    /\ wb' = 0
    /\ pc' = "loop"
    /\ UNCHANGED <<ret, outcome, target_size, read_bufnum, proc_bufnum, i, dev, pos, open,
                   chunks, lastAtt, nAttempts, guiVars, frontVars, unmount_result,
                   cancelIterOff, src_len, steps, ops, closes, writeFailed, recovered>>

\* One pass over the head of the main loop: the loop condition, the progress
\* line, the end test, the rounding of the chunk length, the buffer switch
\* and the read of the next chunk.
LoopHead ==
    /\ pc = "loop"
    /\ cancelIterOff' = IF cancelRequested /\ cancelIterOff = NoOffset
                        THEN wb ELSE cancelIterOff
    /\ IF read_size[proc_bufnum] = 0
       THEN /\ pc' = "finalize"
            /\ UNCHANGED <<read_size, read_bufnum, proc_bufnum, i, g_rufus_progress,
                           events, src_pos, buf, nShort, chunks, nAttempts, requested>>
       ELSE /\ LoopProgress
            /\ IF wb >= target_size
               THEN /\ pc' = "finalize"
                    /\ UNCHANGED <<read_size, read_bufnum, proc_bufnum, i, src_pos, buf,
                                   nShort, chunks, nAttempts, requested>>
               ELSE LET len  == RoundUp(read_size[read_bufnum])
                        proc == read_bufnum
                        rd   == NextBuf(read_bufnum)
                    IN  /\ proc_bufnum' = proc
                        /\ read_bufnum' = rd
                        /\ IF wb + len < target_size
                           THEN LET req == MIN(buf_size, target_size - (wb + len)) IN
                                \E n \in ReadResults(req) :
                                   /\ read_size' = [read_size EXCEPT ![proc] = len, ![rd] = n]
                                   /\ buf' = [buf EXCEPT ![rd] = [src |-> src_pos, n |-> n]]
                                   /\ src_pos' = src_pos + n
                                   /\ nShort' = IF n < Available(req) THEN nShort + 1
                                                ELSE nShort
                                   /\ requested' = requested + req
                           ELSE /\ read_size' = [read_size EXCEPT ![proc] = len, ![rd] = 0]
                                /\ UNCHANGED <<buf, src_pos, nShort, requested>>
                        /\ i' = 1
                        /\ chunks' = Append(chunks, <<wb, len, read_size[read_bufnum]>>)
                        /\ nAttempts' = 0
                        /\ pc' = "attempt"
    /\ UNCHANGED <<ret, outcome, target_size, wb, dev, pos, open, lastAtt, guiVars,
                   frontVars, unmount_result, src_len, steps, ops, closes, writeFailed,
                   recovered>>

\* One pass of the retry loop up to the retry decision: CHECK_FOR_USER_CANCEL,
\* fwrite, and on a full write fflush/fsync, break and the loop increment.
WriteAttempt ==
    /\ pc = "attempt"
    /\ IF g_rufus_progress.cancelled
       THEN /\ GotoOut("cancelled")
            /\ UNCHANGED <<wb, dev, pos, lastAtt, nAttempts, ops, writeFailed, recovered>>
       ELSE LET len == read_size[proc_bufnum] IN
            \E written \in WriteResults(len), sync_ok \in BOOLEAN :
               /\ dev' = DevWrite(dev, pos, written, buf[proc_bufnum])
               /\ pos' \in PositionsAfter(pos, written, len)
               /\ lastAtt' = [off |-> pos, len |-> len, wb |-> wb, written |-> written,
                              durable |-> (written = len /\ sync_ok),
                              slot |-> proc_bufnum]
               /\ nAttempts' = nAttempts + 1
               /\ writeFailed' = (writeFailed \/ written # len)
               /\ recovered' = (recovered \/ (written = len /\ nAttempts > 0))
               /\ IF written = len
                  THEN /\ ops' = FlushOps
                       /\ wb' = Advance(wb, len)
                       /\ pc' = "loop"
                       /\ UNCHANGED outcome
                  ELSE /\ ops' = <<>>
                       /\ UNCHANGED wb
                       /\ IF AttemptsRemain(i)
                          THEN pc' = "retry" /\ UNCHANGED outcome
                          ELSE GotoOut("write_exhausted")
    /\ UNCHANGED <<ret, target_size, read_size, read_bufnum, proc_bufnum, i,
                   g_rufus_progress, events, src_pos, buf, open, nShort, chunks, guiVars,
                   frontVars, unmount_result, requested, cancelIterOff, src_len, steps,
                   closes>>

\* RetrySeek without the fseek: the retry writes where the failed write stopped.
RetrySeek_NoSeek ==
    /\ pc = "retry"
    /\ i' = i + 1
    /\ pc' = "attempt"
    /\ ops' = <<<<"usleep", WRITE_TIMEOUT>>, <<"usleep", SETTLE_PAUSE>>>>
    /\ UNCHANGED <<ret, outcome, target_size, wb, read_size, read_bufnum, proc_bufnum,
                   g_rufus_progress, events, src_pos, buf, dev, pos, open, nShort, chunks,
                   lastAtt, nAttempts, guiVars, frontVars, unmount_result, requested,
                   cancelIterOff, src_len, steps, closes, writeFailed, recovered>>

\* RetrySeek going on to the next attempt after a failed fseek.
RetrySeek_IgnoreFailure ==
    /\ pc = "retry"
    /\ \E ok \in BOOLEAN :
          IF ok
          THEN /\ pos' = wb
               /\ ops' = RetryOps(wb)
          ELSE /\ ops' = <<<<"usleep", WRITE_TIMEOUT>>>>
               /\ UNCHANGED pos
    /\ i' = i + 1
    /\ pc' = "attempt"
    /\ UNCHANGED <<ret, outcome, target_size, wb, read_size, read_bufnum, proc_bufnum,
                   g_rufus_progress, events, src_pos, buf, dev, open, nShort, chunks,
                   lastAtt, nAttempts, guiVars, frontVars, unmount_result, requested,
                   cancelIterOff, src_len, steps, closes, writeFailed, recovered>>

\* After a failed attempt with attempts left: sleep, fseek(physical_drive, wb,
\* SEEK_SET), the 200 ms pause and i++.
RetrySeek ==
    /\ pc = "retry"
    /\ \E ok \in BOOLEAN :
          IF ok
          THEN /\ pos' = wb
               /\ ops' = RetryOps(wb)
               /\ i' = i + 1
               /\ pc' = "attempt"
               /\ UNCHANGED outcome
          ELSE /\ ops' = <<<<"usleep", WRITE_TIMEOUT>>>>
               /\ GotoOut("seek_failed")
               /\ UNCHANGED <<pos, i>>
    /\ UNCHANGED <<ret, target_size, wb, read_size, read_bufnum, proc_bufnum,
                   g_rufus_progress, events, src_pos, buf, dev, open, nShort, chunks,
                   lastAtt, nAttempts, guiVars, frontVars, unmount_result, requested,
                   cancelIterOff, src_len, steps, closes, writeFailed, recovered>>

\* Finalize without ret = true.
Finalize_NoRet ==
    /\ pc = "finalize"
    /\ ops' = ops \o FinalOps
    /\ GotoOut("done")
    /\ UNCHANGED <<ret, target_size, wb, read_size, read_bufnum, proc_bufnum, i,
                   g_rufus_progress, events, src_pos, buf, dev, pos, open, nShort, chunks,
                   lastAtt, nAttempts, guiVars, frontVars, unmount_result, requested,
                   cancelIterOff, src_len, steps, closes, writeFailed, recovered>>

\* After the loop: final fflush/fsync, "ISO written successfully!",
\* system("sync"), ret = true.
Finalize ==
    /\ pc = "finalize"
    /\ ops' = ops \o FinalOps
    /\ ret' = TRUE
    /\ GotoOut("done")
    /\ UNCHANGED <<target_size, wb, read_size, read_bufnum, proc_bufnum, i,
                   g_rufus_progress, events, src_pos, buf, dev, pos, open, nShort, chunks,
                   lastAtt, nAttempts, guiVars, frontVars, unmount_result, requested,
                   cancelIterOff, src_len, steps, closes, writeFailed, recovered>>

\* Release without the free of the buffer.
Release_NoFree(held) == held \ {"buffer"}

\* if (source_image) fclose(source_image); if (physical_drive)
\* fclose(physical_drive); if (buffer) free(buffer): what is released of held.
Release(held) == held

\* out: close both handles, free the buffer, return ret.
Out ==
    /\ pc = "out"
    /\ closes' = [r \in Resources |-> IF r \in Release(open) THEN closes[r] + 1
                                       ELSE closes[r]]
    /\ open' = open \ Release(open)
    /\ pc' = "returned"
    /\ UNCHANGED <<ret, outcome, target_size, wb, read_size, read_bufnum, proc_bufnum, i,
                   g_rufus_progress, events, src_pos, buf, dev, pos, nShort, chunks,
                   lastAtt, nAttempts, guiVars, frontVars, unmount_result, requested,
                   cancelIterOff, src_len, steps, ops, writeFailed, recovered>>

Next ==
    \/ PerformISOWrite
    \/ CancelOperation
    \/ Enter
    \/ Unmount
    \/ OpenSource
    \/ ReadSize
    \/ OpenTarget
    \/ AllocBuffers
    \/ InitialRead
    \/ LoopHead
    \/ WriteAttempt
    \/ RetrySeek
    \/ Finalize
    \/ Out

Spec == Init /\ [][Next]_vars

\* ------------------------------------- the view model and the backend output
\* At most MaxLines lines of backend output are handled per operation.
MaxLines == 3

\* One digit of the long division of r by t, and the remainder it leaves.
Digit(r, t) == (r * 10) \div t

Rest(r, t) == (r * 10) % t

\* The number printed by "%.1f%%" for (double)written / total * 100.0, in
\* tenths of a percent (rounded to the nearest tenth), 0.0 for total = 0.
PercentTenths(written, total) ==
    IF total <= 0 THEN 0
    ELSE LET r0 == written % total
             r1 == Rest(r0, total)
             r2 == Rest(r1, total)
             r3 == Rest(r2, total)
         IN  ((written \div total) * 1000)
             + (Digit(r0, total) * 100) + (Digit(r1, total) * 10) + Digit(r2, total)
             + (IF 2 * r3 >= total THEN 1 ELSE 0)

\* A line "[time] Writing image: P% (w/t bytes)" of rufus_update_progress.
\* A line is the set of the searched phrases it contains and the number in
\* front of its first "%", if any.
ProgressLine(w, t) ==
    [has |-> {"Writing image:", "Writing"}, percent |-> <<PercentTenths(w, t)>>]

\* A line without a percentage that contains the given phrases.
TextLine(phrases) == [has |-> phrases, percent |-> <<>>]

\* <<written, total>> of progress lines that the writer prints for images of
\* 1 byte, 513 bytes, 8 MiB + 1 byte and 16 MiB.
ProgressPairs ==
    {<<0, 1>>, <<SECTOR_SIZE, 1>>, <<SECTOR_SIZE, SECTOR_SIZE + 1>>,
     <<2 * SECTOR_SIZE, SECTOR_SIZE + 1>>, <<buf_size, buf_size + 1>>,
     <<buf_size + SECTOR_SIZE, buf_size + 1>>, <<buf_size, 2 * buf_size>>}

\* Lines of the backend during an image write: the progress lines, "Writing
\* ISO to device...", "ISO written successfully!" and an error line.
ISOLines ==
    {ProgressLine(p[1], p[2]) : p \in ProgressPairs}
    \cup {TextLine({"Writing"}), TextLine({"ISO written successfully"}), TextLine({})}

\* Lines of the backend during a format: "Formatting device...", and lines
\* with none of the phrases ("Executing: diskutil eraseDisk ...", "Device
\* formatted successfully!", "Error: Failed to format device").
FormatLines == {TextLine({"Formatting"}), TextLine({})}

\* parseFormatOutput(output): the value of progress after it, given the value
\* before it.
parseFormatOutput(line, before) ==
    IF "Formatting" \in line.has THEN 25000
    ELSE IF "Writing" \in line.has THEN 50000
    ELSE IF "Verifying" \in line.has THEN 75000
    ELSE before

\* parseISOOutput on one line: the value of progress after it.
parseISOLine(line, before) ==
    IF "Writing image:" \in line.has
    THEN IF line.percent # <<>> THEN line.percent[1] ELSE before
    ELSE IF "ISO written successfully" \in line.has THEN 1000
    ELSE before

\* parseISOOutput(output): every line of the output in turn.
RECURSIVE parseISOOutput(_, _)
parseISOOutput(lines, before) ==
    IF lines = <<>> THEN before
    ELSE parseISOOutput(Tail(lines), parseISOLine(Head(lines), before))

\* The phrases found in a whole output.
AllPhrases(lines) == UNION {lines[k].has : k \in 1..Len(lines)}

\* At most MaxProcesses backend processes are started by the view model.
MaxProcesses == 2

\* The number of lines received from all backend processes together.
RECURSIVE TotalLines(_)
TotalLines(procs) ==
    IF procs = <<>> THEN 0 ELSE Len(Head(procs).output) + TotalLines(Tail(procs))

\* The processes without the p-th: it has terminated.
Terminated(procs, p) == SubSeq(procs, 1, p - 1) \o SubSeq(procs, p + 1, Len(procs))

\* performFormat, behind the Start button (enabled by canStartFormatting,
\* that is while isOperationInProgress is false): marks the operation as
\* running and starts the backend (remus --device .. --filesystem .. --yes).
PerformFormat ==
    /\ ~isOperationInProgress
    /\ Len(running) < MaxProcesses
    /\ isOperationInProgress' = TRUE
    /\ progress' = 0
    /\ statusMessage' = "Preparing to format..."
    /\ running' = Append(running, [kind |-> "format", output |-> <<>>])
    /\ UNCHANGED <<pc, engineVars, frontVars, cancelRequested, cancelIterOff>>

\* performISOWrite, behind the same Start button, for a backend process that
\* is seen from the view model only (remus --device .. --iso .. --yes).
PerformISOWriteGui ==
    /\ ~isOperationInProgress
    /\ Len(running) < MaxProcesses
    /\ isOperationInProgress' = TRUE
    /\ progress' = 0
    /\ statusMessage' = "Preparing to write ISO..."
    /\ running' = Append(running, [kind |-> "iso", output |-> <<>>])
    /\ UNCHANGED <<pc, engineVars, frontVars, cancelRequested, cancelIterOff>>

\* The progress callback of a format: parseFormatOutput on one full line.
ParseFormatLine ==
    /\ TotalLines(running) < MaxLines
    /\ \E p \in 1..Len(running), line \in FormatLines :
          /\ running[p].kind = "format"
          /\ running' = [running EXCEPT ![p].output = Append(@, line)]
          /\ progress' = parseFormatOutput(line, progress)
          /\ statusMessage' = IF "Formatting" \in line.has THEN "Formatting device..."
                               ELSE statusMessage
    /\ UNCHANGED <<pc, engineVars, frontVars, isOperationInProgress, cancelRequested,
                   cancelIterOff>>

\* The completion block of performFormat, run when the backend process has
\* terminated: on success progress = 1.0 and then
\* parseFormatOutput(result.output) on the whole output; on either result
\* isOperationInProgress = false.
FormatFinished ==
    /\ \E p \in 1..Len(running), succeeded \in BOOLEAN :
          /\ running[p].kind = "format"
          /\ running' = Terminated(running, p)
          /\ IF succeeded
             THEN /\ progress' = parseFormatOutput(TextLine(AllPhrases(running[p].output)),
                                                   1000)
                  /\ statusMessage' = IF "Formatting" \in AllPhrases(running[p].output)
                                       THEN "Formatting device..."
                                       ELSE "Format completed successfully!"
             ELSE /\ statusMessage' = "Format failed"
                  /\ UNCHANGED progress
    /\ isOperationInProgress' = FALSE
    /\ UNCHANGED <<pc, engineVars, frontVars, cancelRequested, cancelIterOff>>

\* The progress callback of an image write: parseISOOutput on one full line.
ParseISOLine ==
    /\ TotalLines(running) < MaxLines
    /\ \E p \in 1..Len(running), line \in ISOLines :
          /\ running[p].kind = "iso"
          /\ running' = [running EXCEPT ![p].output = Append(@, line)]
          /\ progress' = parseISOLine(line, progress)
          /\ statusMessage' =
                IF "Writing image:" \in line.has THEN "Writing ISO"
                ELSE IF "ISO written successfully" \in line.has
                     THEN "ISO written successfully!"
                     ELSE statusMessage
    /\ UNCHANGED <<pc, engineVars, frontVars, isOperationInProgress, cancelRequested,
                   cancelIterOff>>

\* The completion block of performISOWrite, run when the backend process has
\* terminated: on success progress = 1.0 and then
\* parseISOOutput(result.output); on either result
\* isOperationInProgress = false.
ISOWriteFinished ==
    /\ \E p \in 1..Len(running), succeeded \in BOOLEAN :
          /\ running[p].kind = "iso"
          /\ running' = Terminated(running, p)
          /\ IF succeeded
             THEN /\ progress' = parseISOOutput(running[p].output, 1000)
                  /\ statusMessage' = "ISO written successfully!"
             ELSE /\ statusMessage' = "ISO write failed"
                  /\ UNCHANGED progress
    /\ isOperationInProgress' = FALSE
    /\ UNCHANGED <<pc, engineVars, frontVars, cancelRequested, cancelIterOff>>

NextGui ==
    \/ PerformFormat
    \/ ParseFormatLine
    \/ FormatFinished
    \/ PerformISOWriteGui
    \/ ParseISOLine
    \/ ISOWriteFinished
    \/ CancelOperation

SpecGui == Init /\ [][NextGui]_vars

\* --------------------------------- the command line tool (remus_macos.c)
MAX_DRIVES == 64

\* The registry holds up to ExtraMedia media more than drives[] has room for.
ExtraMedia == 2

\* Everything that is not the command line tool's.
backVars == <<pc, engineVars, guiVars, cancelIterOff>>

\* Bus names of the DiskArbitration description, as characters.
BusUSB == <<"U", "S", "B">>

BusPCI == <<"P", "C", "I">>

BusSD == <<"S", "D">>

\* The lower-case form of a character, for the characters of "usb".
Lower(c) ==
    CASE c = "U" -> "u"
      [] c = "S" -> "s"
      [] c = "B" -> "b"
      [] OTHER -> c

\* CFStringFind(bus, CFSTR("usb"), kCFCompareCaseInsensitive).location !=
\* kCFNotFound
FindNoCase(hay, needle) ==
    \E k \in 1..(Len(hay) - Len(needle) + 1) :
        \A j \in 1..Len(needle) : Lower(hay[k + j - 1]) = Lower(needle[j])

\* macos_is_usb_device: the bus name of the disk contains "usb"; false when
\* there is no bus name.
macos_is_usb_device(media) == media.bus # <<>> /\ FindNoCase(media.bus, <<"u", "s", "b">>)

\* One IOMedia object: its BSD name, kIOMediaWholeKey, whether its
\* properties can be read, kIOMediaRemovableKey, the bus name, whether
\* macos_get_device_properties succeeds, and the media size.
Media(bsd, whole, removable, bus, size) ==
    [bsd |-> bsd, whole |-> whole, props_ok |-> TRUE, removable |-> removable,
     bus |-> bus, da_ok |-> TRUE, size |-> size]

\* 1 GiB
GiB == 1073741824

\* A machine with an internal disk, a USB stick, an SD card in the built-in
\* reader, an empty USB card reader, a USB hard disk, and media whose
\* description, properties or BSD name cannot be read.
Desktop ==
    <<Media("disk0", TRUE, FALSE, BusPCI, GiB),
      Media("disk0s1", FALSE, FALSE, BusPCI, GiB),
      Media("disk2", TRUE, TRUE, BusUSB, GiB),
      Media("disk2s1", FALSE, TRUE, BusUSB, GiB),
      Media("disk3", TRUE, TRUE, BusSD, GiB),
      Media("disk4", TRUE, TRUE, BusUSB, 0),
      Media("disk5", TRUE, FALSE, BusUSB, GiB),
      [Media("disk6", TRUE, TRUE, BusUSB, GiB) EXCEPT !.da_ok = FALSE],
      [Media("disk7", TRUE, TRUE, BusUSB, GiB) EXCEPT !.props_ok = FALSE],
      Media(NULL, TRUE, TRUE, BusUSB, GiB),
      Media("disk8", TRUE, TRUE, <<>>, GiB),
      Media("disk9", TRUE, TRUE, BusUSB, 2 * SECTOR_SIZE)>>

\* A machine with more USB sticks than drives[] has room for.
Hub ==
    [k \in 1..(MAX_DRIVES + ExtraMedia) |->
        Media("disk" \o ToString(k), TRUE, TRUE, BusUSB, GiB)]

Registries == {<<>>, Desktop, Hub}

\* Command lines: those of the README, of the developer guide and of the GUI,
\* and variations of them.
CommandLines ==
    {<<>>,
     <<"-l">>,
     <<"--help">>,
     <<"-d">>,
     <<"-i", "image.iso">>,
     <<"-d", "disk2">>,
     <<"-d", "disk2", "-y">>,
     <<"-d", "disk2", "-f", "FAT32", "-n", "MY_USB">>,
     <<"-d", "disk3", "-f", "ExFAT">>,
     <<"-d", "disk9", "-f", "ExFAT", "-n", "MY_USB", "-y">>,
     <<"-d", "disk999", "-f", "FAT32">>,
     <<"-d", "disk0", "-f", "FAT32", "-y">>,
     <<"-d", "disk999", "-i", "image.iso", "-y">>,
     <<"-d", "disk65", "-y">>,
     <<"-y">>,
     <<"-d", "--help">>,
     <<"-d", "disk2", "-y", "--help">>,
     <<"-i", "image.iso", "-h", "-d", "disk2">>,
     <<"-d", "disk2", "-y", "-l">>,
     <<"-d", "disk2", "-i", "image.iso">>,
     <<"-d", "disk9", "-i", "image.iso", "-y">>,
     <<"--device", "disk2", "--write", "image.iso">>,
     <<"--device", "disk2", "--iso", "image.iso", "--yes">>,
     <<"--device", "disk2", "--filesystem", "NTFS", "--yes", "--name", "MY_USB">>}

\* Lines typed at the prompt, as characters; fgets returning NULL at the end
\* of input is EndOfInput.
EndOfInput == <<"EOF">>

Responses ==
    {EndOfInput, <<"y", "\n">>, <<"Y", "E", "S", "\n">>, <<"n", "\n">>, <<"\n">>,
     <<" ", "y", "\n">>}

\* What ftell gives for the image in write_iso_to_device: 1 MiB, a size above
\* every device of the model, or -1.
IsoSizes == {1048576, 2147483647, FtellError}

\* main's argument loop from argv[k] on; o holds the locals set so far.
RECURSIVE ParseArgs(_, _, _)
ParseArgs(args, k, o) ==
    IF k > Len(args) THEN o
    ELSE IF args[k] \in {"--device", "-d"} /\ k + 1 <= Len(args)
         THEN ParseArgs(args, k + 2, [o EXCEPT !.device_name = args[k + 1]])
    ELSE IF args[k] \in {"--iso", "-i"} /\ k + 1 <= Len(args)
         THEN ParseArgs(args, k + 2, [o EXCEPT !.iso_file = args[k + 1]])
    ELSE IF args[k] \in {"--yes", "-y"}
         THEN ParseArgs(args, k + 1, [o EXCEPT !.auto_yes = TRUE])
    ELSE IF args[k] \in {"--list", "-l"}
         THEN ParseArgs(args, k + 1, [o EXCEPT !.list_devices = TRUE])
    ELSE IF args[k] \in {"--help", "-h"}
         THEN [o EXCEPT !.help = TRUE]
    ELSE ParseArgs(args, k + 1, o)

\* strrchr(device_path, '/') + 1: the last component of a path.
BaseName(path) == path[Len(path)]

\* The entry of drives[] made for a media object; media is kept as history.
DriveOf(media) ==
    [device_path |-> <<"dev", media.bsd>>, size |-> media.size, media |-> media]

\* Accepts without the test for removable media.
Accepts_AnyMedia(media) ==
    /\ media.props_ok
    /\ media.bsd # NULL
    /\ macos_is_usb_device(media)
    /\ media.da_ok
    /\ media.size # 0

\* The tests of the loop body of macos_get_usb_devices, in order; a media
\* object that fails one is skipped.
Accepts(media) ==
    /\ media.props_ok
    /\ media.bsd # NULL
    /\ media.removable
    /\ macos_is_usb_device(media)
    /\ media.da_ok
    /\ media.size # 0

\* find_device_by_name without the comparison of the names.
FindByName_First(ds, n, name) == IF n >= 1 THEN <<1>> ELSE <<>>

\* The loop of find_device_by_name: the first of drives[0 .. n - 1] whose
\* name is the one asked for, or NULL.
FindByName(ds, n, name) ==
    LET hits == {j \in 1..n : BaseName(ds[j].device_path) = name}
    IN  IF hits = {} THEN <<>>
        ELSE <<CHOOSE j \in hits : \A h \in hits : j <= h>>

\* Confirmed accepting every line.
Confirmed_Any(r) == r # EndOfInput

\* fgets(response, ...) && (response[0] == 'y' || response[0] == 'Y')
Confirmed(r) == r # EndOfInput /\ r[1] \in {"y", "Y"}

\* macos_format_device's mapping of the filesystem type.
macos_fs_type(t) ==
    IF t \in {"FAT32", "fat32"} THEN "FAT32"
    ELSE IF t \in {"NTFS", "ntfs"} THEN "NTFS"
    ELSE "ExFAT"

\* macos_format_device: the unmount and the diskutil eraseDisk command.
macos_format_device(path, t, l) ==
    <<<<"unmount", path>>,
      <<"eraseDisk", macos_fs_type(t),
        IF l # NULL /\ l # "" /\ l # "NO_LABEL" THEN l ELSE "USB_DRIVE",
        BaseName(path)>>>>

\* cleanup_drives()
cleanup_drives ==
    /\ drives' = <<>>
    /\ num_drives' = 0

\* return code from main
Return(code) ==
    /\ cli_pc' = "exit"
    /\ exit_status' = <<code>>

\* ExitCode returning 0 whatever the result.
ExitCode_Zero(ok) == 0

\* success ? 0 : 1
ExitCode(ok) == IF ok THEN 0 ELSE 1

\* bool success = format_device(...) or write_iso_to_device(...), having
\* returned ok; return success ? 0 : 1
Finish(ok) ==
    /\ success' = <<ok>>
    /\ Return(ExitCode(ok))

InitCli ==
    /\ Idle
    /\ Declared
    /\ cli_pc = "main"
    /\ argv \in CommandLines
    /\ registry \in Registries

\* main up to the call of an operation: the argument loop and the dispatch.
Main ==
    /\ cli_pc = "main"
    /\ LET o == ParseArgs(argv, 1,
                          [list_devices |-> (argv = <<>>), auto_yes |-> FALSE,
                           device_name |-> NULL, iso_file |-> NULL, help |-> FALSE])
       IN  /\ list_devices' = o.list_devices
           /\ auto_yes' = o.auto_yes
           /\ device_name' = o.device_name
           /\ iso_file' = o.iso_file
           /\ IF o.help THEN Return(0)
              ELSE IF o.list_devices THEN cli_pc' = "enumerate" /\ UNCHANGED exit_status
              ELSE IF o.device_name # NULL
                   THEN IF o.iso_file = NULL /\ fs_type \notin {"FAT32", "ExFAT", "NTFS"}
                        THEN Return(1)
                        ELSE cli_pc' = "enumerate" /\ UNCHANGED exit_status
              ELSE IF o.iso_file # NULL THEN Return(1)
              ELSE Return(0)
    /\ UNCHANGED <<backVars, iso_size, argv, fs_type, label, enumVars, drive, response,
                   success, calls>>

\* macos_get_usb_devices up to the loop: the matching dictionary for whole
\* media and the iterator.  A failure returns false: list_usb_devices then
\* prints an error and main returns 0, find_device_by_name gives NULL and
\* main returns 1.
GetUsbDevices ==
    /\ cli_pc = "enumerate"
    /\ \E ok \in BOOLEAN :
          IF ok
          THEN /\ iterator' = SelectSeq(registry, LAMBDA m : m.whole)
               /\ drives' = <<>>
               /\ num_drives' = 0
               /\ cli_pc' = "iterate"
               /\ UNCHANGED <<exit_status, success>>
          ELSE /\ cleanup_drives
               /\ IF list_devices THEN Return(0) /\ UNCHANGED success ELSE Finish(FALSE)
               /\ UNCHANGED iterator
    /\ UNCHANGED <<backVars, iso_size, argv, optVars, registry, drive, response, calls>>

\* One pass of while ((media = IOIteratorNext(iter)) && (drive_count <
\* MAX_DRIVES)).
IterateMedia ==
    /\ cli_pc = "iterate"
    /\ iterator # <<>>
    /\ Len(drives) < MAX_DRIVES
    /\ iterator' = Tail(iterator)
    /\ drives' = IF Accepts(Head(iterator)) THEN Append(drives, DriveOf(Head(iterator)))
                 ELSE drives
    /\ UNCHANGED <<backVars, iso_size, cli_pc, argv, optVars, registry, num_drives, drive,
                   response, success, calls, exit_status>>

\* The end of the loop: IOIteratorNext gives no media, or it gives one and
\* drives[] is full; *num_drives = drive_count, return true.  For --list the
\* devices are printed and main returns 0.
EnumerationDone ==
    /\ cli_pc = "iterate"
    /\ ~(iterator # <<>> /\ Len(drives) < MAX_DRIVES)
    /\ iterator' = IF iterator # <<>> THEN Tail(iterator) ELSE iterator
    /\ IF list_devices
       THEN /\ cleanup_drives
            /\ Return(0)
       ELSE /\ num_drives' = Len(drives)
            /\ cli_pc' = "lookup"
            /\ UNCHANGED <<drives, exit_status>>
    /\ UNCHANGED <<backVars, iso_size, argv, optVars, registry, drive, response, success,
                   calls>>

\* find_device_by_name's loop and the test of its result in format_device
\* and write_iso_to_device.
FindDevice ==
    /\ cli_pc = "lookup"
    /\ drive' = FindByName(drives, num_drives, device_name)
    /\ IF drive' = <<>>
       THEN /\ cleanup_drives
            /\ Finish(FALSE)
       ELSE /\ cli_pc' = IF iso_file # NULL THEN "check_iso" ELSE "confirm"
            /\ UNCHANGED <<drives, num_drives, exit_status, success>>
    /\ UNCHANGED <<backVars, iso_size, argv, optVars, registry, iterator, response, calls>>

\* write_iso_to_device: the image must open and must not be larger than the
\* device.
CheckISO ==
    /\ cli_pc = "check_iso"
    /\ \E opened \in BOOLEAN, size \in IsoSizes :
          IF opened
          THEN /\ iso_size' = <<size>>
               /\ IF size > drives[drive[1]].size
                  THEN /\ cleanup_drives
                       /\ Finish(FALSE)
                  ELSE /\ cli_pc' = "confirm"
                       /\ UNCHANGED <<drives, num_drives, exit_status, success>>
          ELSE /\ cleanup_drives
               /\ Finish(FALSE)
               /\ UNCHANGED iso_size
    /\ UNCHANGED <<backVars, argv, optVars, registry, iterator, drive, response, calls>>

\* The prompt "Do you want to continue? (y/N)", skipped with --yes.
Confirm ==
    /\ cli_pc = "confirm"
    /\ IF auto_yes
       THEN /\ cli_pc' = "operate"
            /\ UNCHANGED <<response, drives, num_drives, exit_status, success>>
       ELSE \E r \in Responses :
               /\ response' = r
               /\ IF Confirmed(r)
                  THEN /\ cli_pc' = "operate"
                       /\ UNCHANGED <<drives, num_drives, exit_status, success>>
                  ELSE /\ cleanup_drives
                       /\ Finish(FALSE)
    /\ UNCHANGED <<backVars, iso_size, argv, optVars, registry, iterator, drive, calls>>

\* format_device: macos_format_device(drive->device_path, fs_type, label)
FormatDevice ==
    /\ cli_pc = "operate"
    /\ iso_file = NULL
    /\ calls' = calls \o macos_format_device(drives[drive[1]].device_path, fs_type, label)
    /\ \E ok \in BOOLEAN : Finish(ok)
    /\ cleanup_drives
    /\ UNCHANGED <<backVars, iso_size, argv, optVars, registry, iterator, drive, response>>

\* write_iso_to_device: macos_write_iso_to_device(iso_path, drive->device_path)
WriteISO ==
    /\ cli_pc = "operate"
    /\ iso_file # NULL
    /\ calls' = Append(calls, <<"write_iso", iso_file, drives[drive[1]].device_path>>)
    /\ \E ok \in BOOLEAN : Finish(ok)
    /\ cleanup_drives
    /\ UNCHANGED <<backVars, iso_size, argv, optVars, registry, iterator, drive, response>>

NextCli ==
    \/ Main
    \/ GetUsbDevices
    \/ IterateMedia
    \/ EnumerationDone
    \/ FindDevice
    \/ CheckISO
    \/ Confirm
    \/ FormatDevice
    \/ WriteISO

SpecCli == InitCli /\ [][NextCli]_vars

\* ------------------------------------------------------------------- claims
Returned == pc = "returned"

Done == Returned /\ ret

Attempted == lastAtt.off # NoOffset

LastChunk == chunks[Len(chunks)]

\* C1: whenever the run ends in success, the device bytes [0, total_size)
\* equal the image bytes at the same offsets (stated for the runs in which the
\* size query gave the length of the source).
C1_DeviceEqualsImage == (Done /\ target_size = src_len) => DevHoldsImage(dev, target_size)

\* C2: at Done the increments of the written-bytes counter sum to total_size
\* exactly (stated for the runs in which the size query gave the length of
\* the source and every read returned all it was asked for).
C2_WrittenSumsToTotal == (Done /\ target_size = src_len /\ nShort = 0) => wb = target_size

\* C3: every write attempt is made at the write cursor, a retry is made at
\* the offset of the failed attempt, and the cursor moves only by an attempt
\* that wrote the full length.
C3_RetrySameOffset ==
    [][/\ (nAttempts' = nAttempts + 1) =>
             /\ lastAtt'.off = wb
             /\ (nAttempts > 0 => lastAtt'.off = lastAtt.off /\ lastAtt.written < lastAtt.len)
       /\ (wb' # wb) => (nAttempts' = nAttempts + 1 /\ lastAtt'.written = lastAtt'.len)]_vars

\* C3 witness: a retry of a chunk beyond the first has failed again, at the
\* chunk's offset.
C3_Witness ==
    /\ nAttempts >= 3
    /\ lastAtt.wb > 0
    /\ lastAtt.off = lastAtt.wb
    /\ lastAtt.written < lastAtt.len

\* C4: a chunk is attempted at most 5 times; after 5 failures the run has the
\* exit path "write exhausted" with a failure result, and from then on nothing
\* is written, the cursor stays, and the run only proceeds to its return.
C4_AtMostFiveAttempts ==
    /\ [](/\ nAttempts <= 5
          /\ (nAttempts = 5 /\ lastAtt.written < lastAtt.len) =>
                (pc \in {"out", "returned"} /\ outcome = "write_exhausted" /\ ~ret))
    /\ [][outcome = "write_exhausted" =>
             (UNCHANGED <<nAttempts, lastAtt, dev, wb, ret, outcome>>
              /\ pc' \in {"out", "returned"})]_vars

\* C4 witness: the run has returned after the second chunk failed 5 times.
C4_Witness ==
    /\ Returned
    /\ outcome = "write_exhausted"
    /\ nAttempts = 5
    /\ wb > 0

\* C5: once an iteration has begun after cancellation was requested, no
\* write attempt is made at that iteration's offset or beyond, and the run
\* ends as cancelled.
C5_CancelStopsWrites ==
    /\ cancelIterOff # NoOffset => (~Attempted \/ lastAtt.off < cancelIterOff)
    /\ (Returned /\ cancelIterOff # NoOffset) => outcome = "cancelled"

\* C6: chunks start at 0, each chunk starts where the previous one ended and
\* at a strictly higher offset, every attempt is made at the offset of the
\* chunk in hand, and the write cursor never decreases.
C6_IncreasingOffsets ==
    /\ [](/\ Len(chunks) >= 1 => chunks[1][1] = 0
          /\ \A k \in 1..(Len(chunks) - 1) :
                /\ chunks[k + 1][1] = chunks[k][1] + chunks[k][2]
                /\ chunks[k + 1][1] > chunks[k][1]
          /\ nAttempts > 0 => (lastAtt.off = LastChunk[1] /\ lastAtt.len = LastChunk[2])
          /\ (nAttempts = 0 /\ Len(chunks) >= 2) => lastAtt.off = chunks[Len(chunks) - 1][1]
          /\ Len(chunks) >= 1 => wb \in {LastChunk[1], LastChunk[1] + LastChunk[2]})
    /\ [][wb' >= wb]_vars

\* C6 witness: the third chunk is being retried.
C6_Witness ==
    /\ Len(chunks) >= 3
    /\ nAttempts >= 2
    /\ lastAtt.off = chunks[2][1] + chunks[2][2]

\* C7: every length passed to a device write is a multiple of 512.
C7_SectorMultiple ==
    /\ lastAtt.len % 512 = 0
    /\ pc = "attempt" => read_size[proc_bufnum] % 512 = 0

\* C7 witness: the final chunk of an image whose size is no multiple of 512
\* has been written, beyond the end of the image.
C7_Witness ==
    /\ Attempted
    /\ target_size % 512 # 0
    /\ lastAtt.off + lastAtt.len > target_size
    /\ lastAtt.off > 0

\* C8: the progress values printed during one run never decrease
\* (written / total * 100 with one total throughout).
C8_ProgressMonotonic ==
    \A k \in 1..(Len(events) - 1) :
        /\ events[k][2] = events[k + 1][2]
        /\ events[k][1] <= events[k + 1][1]

\* C8 witness: four progress lines, the last above the first.
C8_Witness ==
    /\ Len(events) >= 4
    /\ events[Len(events)][1] > events[1][1]

\* C9: no progress line reports more than 100% (more bytes written than the
\* total).
C9_ProgressAtMost100 == \A k \in 1..Len(events) : events[k][1] <= events[k][2]

\* C10: a run in which a read of the source returned fewer bytes than
\* requested never ends in success.
C10_ReadFailureAborts == nShort > 0 => ~ret

\* The setup step that acquires a resource.
StepOf(r) ==
    CASE r = "source_image" -> "open_source"
      [] r = "physical_drive" -> "open_target"
      [] r = "buffer" -> "alloc"

Acquired(r) == \E k \in 1..Len(steps) : steps[k] = <<StepOf(r), TRUE>>

HasOp(name) == \E k \in 1..Len(ops) : ops[k][1] = name

\* C11: every resource acquired is held until the run leaves through out
\* and is released there exactly once; nothing else is released.
C11_ResourcesReleased ==
    \A r \in Resources :
        /\ Returned => (r \notin open /\ closes[r] = (IF Acquired(r) THEN 1 ELSE 0))
        /\ ~Returned => (closes[r] = 0 /\ (r \in open <=> Acquired(r)))

\* C11 witness: the run has returned after a chunk failed 5 times, with all
\* three resources released.
C11_Witness ==
    /\ Returned
    /\ outcome = "write_exhausted"
    /\ \A r \in Resources : closes[r] = 1

\* C12: a write attempt counted as successful has been flushed and synced
\* with success.
C12_CountedChunksDurable == (Attempted /\ lastAtt.written = lastAtt.len) => lastAtt.durable

\* C13: every write attempt, first attempts included, is preceded by a seek
\* to the offset of its chunk.
C13_SeekBeforeEveryAttempt ==
    [][(nAttempts' = nAttempts + 1) => (\E k \in 1..Len(ops) : ops[k] = <<"fseek", wb>>)]_vars

\* C13 as amended: every retry is preceded by a seek to the offset of its
\* chunk; a first attempt is made without a seek, at the position the open or
\* the previous full write left, which is the offset of its chunk.
C13_SeekBeforeRetry ==
    [][(nAttempts' = nAttempts + 1) =>
          /\ pos = wb
          /\ IF nAttempts > 0
             THEN \E k \in 1..Len(ops) :
                     /\ ops[k] = <<"fseek", wb>>
                     /\ \A j \in (k + 1)..Len(ops) : ops[j][1] # "fseek"
             ELSE ~HasOp("fseek")]_vars

\* C13 witness: the second attempt of a chunk beyond the first is about to be
\* made, after the seek to its offset.
C13_Witness ==
    /\ pc = "attempt"
    /\ i = 2
    /\ wb > 0
    /\ pos = wb
    /\ \E k \in 1..Len(ops) : ops[k] = <<"fseek", wb>>

\* C14: once a chunk was written in full after failed attempts, the run ends
\* in success unless a chunk is exhausted or the run is cancelled.
C14_RecoveredReachesDone ==
    (Returned /\ recovered /\ outcome \notin {"write_exhausted", "cancelled"}) => ret

\* C14 as amended: a chunk whose write fails and then succeeds on attempt
\* f + 1 has had f retries, after which the run goes on as after any full
\* write; the run then ends in success unless a chunk is exhausted (5 failed
\* attempts) or a re-seek fails, and a failed attempt alone is never the
\* terminal result.
C14_RetriesThenProceeds ==
    /\ pc = "retry" => (nAttempts = i /\ i <= 4 /\ lastAtt.written < lastAtt.len)
    /\ (pc = "attempt" /\ i > 1) => nAttempts = i - 1
    /\ (Attempted /\ lastAtt.written = lastAtt.len /\ nAttempts > 0) =>
          (outcome \in {"none", "done"} /\ (Returned => ret))
    /\ outcome = "write_exhausted" => (nAttempts = 5 /\ lastAtt.written < lastAtt.len)
    /\ (Returned /\ recovered /\ outcome \notin {"write_exhausted", "seek_failed"}) => ret

\* C14 witness: the run ended in success after the last of several chunks was
\* written in full on its third attempt.
C14_Witness ==
    /\ Done
    /\ recovered
    /\ Len(chunks) >= 2
    /\ nAttempts = 3
    /\ lastAtt.written = lastAtt.len

\* C15: a run without write failures ends in success after exactly
\* ceil(total_size / buf_size) write attempts, one per chunk, and chunk k holds
\* min(buf_size, remaining) bytes before rounding (stated for the runs in
\* which the size query gave the length of the source).
C15_ChunkCount ==
    (Returned /\ ~writeFailed /\ Len(steps) = 5 /\ steps[5][2] /\ target_size = src_len) =>
        /\ ret
        /\ Len(chunks) = (target_size + (buf_size - 1)) \div buf_size
        /\ \A k \in 1..Len(chunks) :
              chunks[k][3] = MIN(buf_size, target_size - ((k - 1) * buf_size))

\* The result kind that a returned value stands for, if each value stood for
\* one kind.
ReportedKind(result) == IF result THEN "done" ELSE "write_exhausted"

\* C16: the value returned tells the terminal kind: no two kinds are returned
\* as the same value.
C16_ResultTellsKind == Returned => outcome = ReportedKind(ret)

Kinds ==
    {"done", "null_params", "source_open", "invalid_size", "target_open", "alloc",
     "seek_failed", "write_exhausted", "cancelled"}

\* C16 as amended: the run returns one boolean, true exactly on the exit path
\* of success and false on every other exit path; the failure kinds and
\* cancellation differ in the message printed only.
C16_BooleanResult ==
    /\ Returned => (outcome \in Kinds /\ (ret <=> outcome = "done"))
    /\ ret => (pc \in {"out", "returned"} /\ outcome = "done")

\* C16 witness: the run has returned false because the device could not be
\* opened.
C16_Witness ==
    /\ Returned
    /\ ~ret
    /\ outcome = "target_open"

\* C17: when the size query fails or gives 0, the run ends with the size
\* error and no later step (opening the device) is made.
C17_SizeErrorFails ==
    (Len(steps) >= 3 /\ ~steps[3][2]) =>
        (Len(steps) = 3 /\ outcome = "invalid_size" /\ "physical_drive" \notin open /\ ~ret)

SetupOrder == <<"unmount", "open_source", "size", "open_target", "alloc">>

\* C18: the setup steps run in the order unmount, open source, size, open
\* device, allocate; a failed step after unmount is the last step and the run
\* fails; nothing is written unless all of these steps succeeded.
C18_SetupOrder ==
    /\ Len(steps) <= 5
    /\ \A k \in 1..Len(steps) : steps[k][1] = SetupOrder[k]
    /\ \A k \in 2..Len(steps) :
          ~steps[k][2] => (Len(steps) = k /\ pc \in {"out", "returned"} /\ ~ret)
    /\ (Attempted \/ dev # {}) => (Len(steps) = 5 /\ \A k \in 2..5 : steps[k][2])

\* C19: whenever the run proceeds from a write attempt to the next attempt
\* or to the next chunk, a pause of 200 ms was made after that attempt.
C19_PauseAfterEveryAttempt ==
    [][(Attempted /\ (nAttempts' = nAttempts + 1 \/ Len(chunks') > Len(chunks))) =>
          (\E k \in 1..Len(ops) : ops[k] = <<"usleep", 200>>)]_vars

\* C19 as amended: between a failed attempt and its retry the run sleeps
\* 5000 ms, seeks to the chunk's offset and pauses 200 ms, in this order; no
\* pause follows a full write (the next chunk starts after fflush and fsync)
\* or the 5th failed attempt.
C19_PauseBeforeRetry ==
    [][/\ (nAttempts' = nAttempts + 1 /\ nAttempts > 0) =>
             ops = <<<<"usleep", 5000>>, <<"fseek", wb>>, <<"usleep", 200>>>>
       /\ (Attempted /\ Len(chunks') > Len(chunks)) => ops = <<<<"fflush", 0>>, <<"fsync", 0>>>>
       /\ (outcome' = "write_exhausted") => ops' = <<>>]_vars

\* C19 witness: the third attempt of a chunk beyond the first is about to be
\* made, after sleep, seek and pause.
C19_Witness ==
    /\ pc = "attempt"
    /\ i = 3
    /\ Len(chunks) >= 2
    /\ ops = <<<<"usleep", 5000>>, <<"fseek", wb>>, <<"usleep", 200>>>>

\* C20: the run ends in success only with all bytes accounted for and after
\* the final fflush, fsync and host sync; a run that fails has made no host
\* sync (stated for the runs in which the size query gave the length of the
\* source).
C20_DoneAfterAllBytes ==
    /\ (Done /\ target_size = src_len) =>
          (wb >= target_size /\ Len(ops) >= 3
           /\ SubSeq(ops, Len(ops) - 2, Len(ops)) = <<<<"fflush", 0>>, <<"fsync", 0>>, <<"sync", 0>>>>)
    /\ (Returned /\ ~ret) => ~HasOp("sync")

\* C21: the unmount is requested once, as the first step and before anything
\* is opened, and whatever it returns the run goes on to open the source with
\* nothing else changed; the result is read by nothing after that.
C21_UnmountNonFatal ==
    [][/\ (pc = "unmount" /\ pc' # pc) =>
             /\ steps = <<>> /\ open = {}
             /\ steps' = <<<<"unmount", TRUE>>>>
             /\ pc' = "open_source"
             /\ UNCHANGED <<ret, outcome, open, dev, events, src_pos, pos>>
       /\ \A k \in 2..Len(steps') : steps'[k][1] # "unmount"
       /\ (open' # open) => (Len(steps) >= 1 /\ steps[1][1] = "unmount")
       /\ (unmount_result # <<>>) => pc = "open_source"
       /\ (pc = "open_source" /\ pc' # pc) =>
             (unmount_result' = <<>> /\ pc' \in {"size", "out"})]_vars

\* C21 witness: the unmount has failed and the run is about to open the source.
C21_Witness ==
    /\ pc = "open_source"
    /\ unmount_result = <<256>>
    /\ outcome = "none"

\* Sum of the lengths of the first n chunks.
RECURSIVE SumLen(_, _)
SumLen(cs, n) == IF n = 0 THEN 0 ELSE SumLen(cs, n - 1) + cs[n][2]

\* C22: one progress line (0 bytes) is printed before the loop and one at the
\* start of every loop iteration, nowhere else; the line of an iteration
\* reports wb, the sum of the lengths of the chunks written so far.
C22_ProgressPerIteration ==
    [][/\ (pc = "initial_read" /\ pc' # pc) =>
             (events = <<>> /\ events' = <<<<0, target_size>>>>)
       /\ (pc = "loop" /\ pc' # pc) =>
             IF read_size[proc_bufnum] # 0
             THEN /\ events' = Append(events, <<wb, target_size>>)
                  /\ wb = SumLen(chunks, Len(chunks))
             ELSE events' = events
       /\ (pc \notin {"initial_read", "loop"}) => events' = events]_vars

\* C22 witness: the second iteration has printed its line, the third line in
\* all, and its chunk is about to be written.
C22_Witness ==
    /\ pc = "attempt"
    /\ Len(chunks) = 2
    /\ Len(events) = 3
    /\ events[3][1] = wb
    /\ wb > 0

\* C28: the two slots are distinct and swap roles in every iteration; a read
\* goes into the slot that is not the write source, changes no other slot,
\* and the slot it overwrites is empty or was written in full by the latest
\* write; every write comes from the slot that is not the read slot.
C28_SlotsAlternate ==
    [][/\ read_bufnum # proc_bufnum
       /\ (Len(chunks') > Len(chunks)) =>
             (proc_bufnum' = read_bufnum /\ read_bufnum' = proc_bufnum)
       /\ (requested' # requested) =>
             LET b == read_bufnum' IN
             /\ b # proc_bufnum'
             /\ \A c \in (0..(NUM_BUFFERS - 1)) \ {b} : buf'[c] = buf[c]
             /\ \/ buf[b].n = 0
                \/ /\ lastAtt.slot = b
                   /\ lastAtt.written = lastAtt.len
                   /\ lastAtt.len = RoundUp(buf[b].n)
       /\ (nAttempts' = nAttempts + 1) =>
             (lastAtt'.slot = proc_bufnum /\ lastAtt'.slot # read_bufnum)]_vars

\* C28 witness: the third chunk has been read into slot 0, which held the
\* first chunk, while the second chunk is written from slot 1.
C28_Witness ==
    /\ pc = "attempt"
    /\ Len(chunks) = 2
    /\ read_bufnum = 0
    /\ proc_bufnum = 1
    /\ buf[0].src = 2 * buf_size
    /\ buf[0].n > 0

\* C29: no read asks for more than a slot holds, no write is longer than a
\* slot, and the lengths asked of the source add up to at most total_size.
C29_RequestsBounded ==
    [][/\ requested' - requested <= buf_size
       /\ (nAttempts' = nAttempts + 1) => lastAtt'.len <= buf_size
       /\ requested' <= target_size']_vars

\* C30: while an operation is in progress the view model's progress lies in
\* [0, 1].
C30_ProgressInUnitInterval == isOperationInProgress => (0 <= progress /\ progress <= 1000)


\* The device a call of the command line tool acts on, as a BSD name.
Target(call) ==
    CASE call[1] = "unmount" -> BaseName(call[2])
      [] call[1] = "eraseDisk" -> call[4]
      [] call[1] = "write_iso" -> BaseName(call[3])

\* The argument that follows one of the options of print_usage on the
\* command line, NULL when the option is not given.
OptArg(args, flags) ==
    LET ks == {k \in 1..(Len(args) - 1) : args[k] \in flags}
    IN  IF ks = {} THEN NULL
        ELSE args[(CHOOSE k \in ks : \A h \in ks : k <= h) + 1]

\* C23: the command line tool unmounts, formats or writes only a device that
\* the enumeration made by this invocation returned (whole, removable, on a
\* USB bus) and whose BSD name is the name asked for; when the name asked for
\* is not the name of a returned device, it returns 1 and has made no unmount,
\* format or write.
C23_OnlyEnumeratedDevice ==
    [][/\ (calls' # calls) =>
            \E j \in 1..num_drives :
                /\ \E k \in 1..Len(registry) : registry[k] = drives[j].media
                /\ drives[j].media.whole
                /\ drives[j].media.removable
                /\ FindNoCase(drives[j].media.bus, <<"u", "s", "b">>)
                /\ drives[j].media.bsd = device_name
                /\ drives[j].device_path = <<"dev", device_name>>
                /\ \A k \in (Len(calls) + 1)..Len(calls') :
                       Target(calls'[k]) = device_name
       /\ (/\ cli_pc = "lookup"
           /\ \A j \in 1..num_drives : BaseName(drives[j].device_path) # device_name)
            => (cli_pc' = "exit" /\ exit_status' = <<1>> /\ calls' = <<>>)
       /\ (cli_pc' = "exit" /\ exit_status' = <<0>> /\ device_name # NULL /\ cli_pc # "main"
           /\ ~list_devices)
            => calls' # calls]_vars

\* A device that is not the first of the list has been formatted.
C23_Witness ==
    /\ cli_pc = "exit"
    /\ registry = Desktop
    /\ device_name = "disk9"
    /\ \E k \in 1..Len(calls) : calls[k][1] = "eraseDisk" /\ calls[k][4] = "disk9"

\* C24: without --yes/-y, macos_format_device and macos_write_iso_to_device
\* are called only after an answer to the prompt that begins with y or Y; at
\* the end of input and after any other answer the tool returns 1 and has
\* called neither.
C24_ConfirmationRequired ==
    /\ (calls # <<>>) => (auto_yes \/ (response # <<>> /\ response[1] \in {"y", "Y"}))
    /\ (response # <<>> /\ response[1] \notin {"y", "Y"})
         => (cli_pc = "exit" /\ exit_status = <<1>> /\ calls = <<>>)

\* The image has been written after the answer YES, without --yes.
C24_Witness ==
    /\ ~auto_yes
    /\ response = <<"Y", "E", "S", "\n">>
    /\ \E k \in 1..Len(calls) : calls[k][1] = "write_iso"

\* C25: with -d DEVICE, -f/--filesystem TYPE and -n/--name LABEL the device
\* is formatted with filesystem TYPE and volume label LABEL.
C25_FormatAsRequested ==
    (/\ OptArg(argv, {"-d", "--device"}) # NULL
     /\ OptArg(argv, {"-f", "--filesystem"}) \in {"FAT32", "ExFAT", "NTFS"}
     /\ OptArg(argv, {"-n", "--name"}) # NULL)
     => \A k \in 1..Len(calls) :
            calls[k][1] = "eraseDisk"
             => /\ calls[k][2] = OptArg(argv, {"-f", "--filesystem"})
                /\ calls[k][3] = OptArg(argv, {"-n", "--name"})

\* C26: --device DEVICE --write ISO selects the image write: the tool does
\* not format the device, and what it writes is the image ISO.
C26_WriteSelectsImageWrite ==
    (OptArg(argv, {"--device"}) # NULL /\ OptArg(argv, {"--write"}) # NULL)
     => /\ \A k \in 1..Len(calls) :
               /\ calls[k][1] = "write_iso"
               /\ calls[k][2] = OptArg(argv, {"--write"})
        /\ (cli_pc = "exit" /\ exit_status = <<0>>) => calls # <<>>

\* C27: every device macos_get_usb_devices reports is whole media, removable,
\* on a USB bus, with readable properties and a size that is not 0, and it
\* reports at most MAX_DRIVES devices.
C27_OnlyRemovableUsb ==
    /\ Len(drives) <= MAX_DRIVES
    /\ num_drives <= MAX_DRIVES
    /\ num_drives <= Len(drives)
    /\ \A j \in 1..Len(drives) :
           /\ drives[j].media.whole
           /\ drives[j].media.removable
           /\ FindNoCase(drives[j].media.bus, <<"u", "s", "b">>)
           /\ drives[j].media.props_ok
           /\ drives[j].media.da_ok
           /\ drives[j].media.bsd # NULL
           /\ drives[j].size = drives[j].media.size
           /\ drives[j].size # 0

\* MAX_DRIVES devices have been reported while the iterator has more USB
\* sticks to give.
C27_Witness ==
    /\ cli_pc = "lookup"
    /\ num_drives = MAX_DRIVES
    /\ iterator # <<>>
    /\ Accepts(Head(iterator))

\* C31: the run returns true only if the bytes written to the device, summed
\* over the chunks, are at least total_size.
C31_SuccessMeansAllWritten == ret => wb >= target_size

\* C32: the cancellation flag of the writer is false in every state: the
\* entry of the writer resets the progress record, nothing sets the flag, and
\* the Cancel button changes the view model only, leaving the backend where
\* it is and as it is.
C32_CancelFlagNeverSet ==
    /\ ~g_rufus_progress.cancelled
    /\ [][/\ ~g_rufus_progress'.cancelled
          /\ (pc = "start" /\ pc' = "unmount") =>
                g_rufus_progress' = [total_size |-> 0, written_bytes |-> 0,
                                     cancelled |-> FALSE]
          /\ (cancelRequested' # cancelRequested) =>
                (~isOperationInProgress' /\ UNCHANGED <<pc, engineVars, frontVars>>)]_vars

\* C32 witness: Cancel was pressed during the run, and the backend has since
\* begun a new iteration and written its chunk.
C32_Witness ==
    /\ cancelRequested
    /\ cancelIterOff # NoOffset
    /\ Attempted
    /\ lastAtt.off >= cancelIterOff
    /\ lastAtt.written = lastAtt.len

\* C33: at most one backend process started by the view model is running at
\* any time, and isOperationInProgress is true whenever one is running.
C33_OneBackendProcess ==
    /\ Len(running) <= 1
    /\ (running # <<>>) => isOperationInProgress

\* C34: no device byte at or beyond total_size rounded up to the next
\* multiple of 512 is written or asked to be written, so what is written
\* beyond the end of the image lies in the padding of its last block, which
\* is shorter than 512 bytes.  (A total_size of 2^64 - 1 bounds nothing.)
C34_NothingBeyondLastBlock ==
    LET end == IF target_size = Uint64(FtellError) THEN target_size
               ELSE ((target_size + 511) \div 512) * 512
    IN  /\ \A e \in dev : e[2] <= end
        /\ Attempted => lastAtt.off + lastAtt.len <= end
        /\ pc = "attempt" => wb + read_size[proc_bufnum] <= end
        /\ end - target_size < 512

\* C34 witness: the last of several chunks has been written, with bytes that
\* are not image data behind the end of the image.
C34_Witness ==
    /\ Len(chunks) >= 2
    /\ target_size = src_len
    /\ nShort = 0
    /\ \E e \in dev : e[3] = Stale /\ e[1] = target_size /\ e[2] > target_size

\* The iterations of the main loop begun so far: each prints one progress
\* line, after the line printed before the loop.
Iterations == IF events = <<>> THEN 0 ELSE Len(events) - 1

\* C35: a run makes at most 5 write attempts per chunk and at most
\* ceil(total_size / buf_size) + 1 iterations of the main loop.  (A
\* total_size of 2^64 - 1 bounds nothing.)
C35_BoundedRun ==
    /\ nAttempts <= WRITE_RETRIES
    /\ target_size # Uint64(FtellError) =>
          Iterations <= ((target_size + (buf_size - 1)) \div buf_size) + 1

\* C36: when the seek back to the offset of the chunk fails, the run leaves
\* at once with a failure result, whatever the number of attempts left: the
\* failed attempt before the seek stays the last write attempt of the run.
C36_SeekFailureAborts ==
    /\ (ops = <<<<"usleep", WRITE_TIMEOUT>>>>) <=> (outcome = "seek_failed")
    /\ (outcome = "seek_failed") =>
          /\ pc \in {"out", "returned"}
          /\ ~ret
          /\ i < WRITE_RETRIES
          /\ nAttempts = i
          /\ lastAtt.written < lastAtt.len
          /\ lastAtt.off = wb
          /\ lastAtt.wb = wb

\* C36 witness: the run has returned after the seek that follows the first
\* failed attempt of a chunk beyond the first failed.
C36_Witness ==
    /\ Returned
    /\ outcome = "seek_failed"
    /\ i = 1
    /\ wb > 0
    /\ ~ret

\* C37: write_iso_to_device refuses an image larger than the device before
\* the prompt and before any unmount or write, so that the writer is started
\* only with a total_size that is at most the size of the device.  The writer
\* takes total_size as the command line tool took iso_size, from ftell on the
\* image, and converts it to uint64_t.
C37_ImageFitsDevice ==
    /\ []((cli_pc \in {"confirm", "operate"} /\ iso_file # NULL) =>
            Uint64(iso_size[1]) <= drives[drive[1]].size)
    /\ [][(cli_pc = "check_iso" /\ iso_size' # <<>> /\ iso_size'[1] > drives[drive[1]].size) =>
             (cli_pc' = "exit" /\ exit_status' = <<1>> /\ response' = <<>>
              /\ calls' = <<>>)]_vars

\* The k-th argument is taken as the value of the option in front of it
\* (--device/-d or --iso/-i, itself not taken as a value).
RECURSIVE Consumed(_, _)
Consumed(args, k) ==
    /\ k > 1
    /\ args[k - 1] \in {"--device", "-d", "--iso", "-i"}
    /\ ~Consumed(args, k - 1)

\* One of the flags is on the command line, not as the value of an option.
Given(args, flags) == \E k \in 1..Len(args) : args[k] \in flags /\ ~Consumed(args, k)

\* C38: with --help or --list, or without arguments, the tool makes no
\* device operation and returns 0; with a device and an image it makes the
\* image write only, with a device alone the format only; with an image and
\* no device it makes no device operation and returns 1; and after a format
\* or a write it returns 0 exactly when the operation succeeded.
C38_Dispatch ==
    LET info == Given(argv, {"--help", "-h", "--list", "-l"}) \/ argv = <<>>
    IN  /\ info => (calls = <<>> /\ success = <<>>)
        /\ (device_name = NULL) => (calls = <<>> /\ success = <<>>)
        /\ (iso_file # NULL) => \A k \in 1..Len(calls) : calls[k][1] = "write_iso"
        /\ (iso_file = NULL) =>
              \A k \in 1..Len(calls) : calls[k][1] \in {"unmount", "eraseDisk"}
        /\ (success = <<TRUE>>) => calls # <<>>
        /\ (cli_pc = "exit") =>
              /\ info => exit_status = <<0>>
              /\ (~info /\ device_name = NULL /\ iso_file # NULL) => exit_status = <<1>>
              /\ (~info /\ device_name # NULL) =>
                    /\ success # <<>>
                    /\ (exit_status = <<0>>) <=> (success = <<TRUE>>)
                    /\ exit_status \in {<<0>>, <<1>>}

\* C38 witness: with a device and an image the write was made and failed,
\* and the tool has returned 1.
C38_Witness ==
    /\ cli_pc = "exit"
    /\ device_name # NULL
    /\ iso_file # NULL
    /\ \E k \in 1..Len(calls) : calls[k][1] = "write_iso"
    /\ success = <<FALSE>>
    /\ exit_status = <<1>>

====
